---------------------------- MODULE Spec2Model ----------------------------
(***************************************************************************)
(* Model of the Dachau vaccination-appointment plugin                      *)
(* (impfbot/contrib/de/bavaria/dachau.py) and of the bot's configuration   *)
(* loader (impfbot/main/config.py).                                        *)
(*                                                                         *)
(* The code is synchronous and keeps no state between calls, so the state  *)
(* of the model is the record of one call as its caller sees it: what was  *)
(* sent and received over HTTP, what the call returned or raised, and what *)
(* it logged.  Return takes the caller back to its loop.                   *)
(*                                                                         *)
(* Text is modelled as follows.  Date strings are sequences of characters  *)
(* and are parsed character by character.  An Optional value is a sequence *)
(* of length 0 (None) or 1.  A JSON text is <<"json", value>> when a JSON  *)
(* parser accepts it and <<"text", ...>> when it does not.                 *)
(***************************************************************************)
EXTENDS Integers, Sequences, FiniteSets, TLC

\* Bounds of the model.
MaxShops == 2        \* options listed in one page's shop-list container
MaxDates == 2        \* entries of the dates array of a data-intervals attribute

None == << >>
Some(v) == << v >>

-----------------------------------------------------------------------------
(* dachau.py: constants and the data model *)

ModuleName == "impfbot.contrib.de.bavaria.dachau"

ASTRA_2_URL == "https://termin.dachau-med.de/impfungen01/"
JNJ_URL == "https://termin.dachau-med.de/impfungen02/"
BIONTECH_1_URL == "https://termin.dachau-med.de/impfungen03/"
BIONTECH_2_URL == "https://termin.dachau-med.de/impfung/"

VaccineType == {"JohnsonAndJohnson", "AstraZeneca", "Biontech"}

\* The dataclass DachauMedVaccinationCenter (the field holding the nonce is
\* spelled ajax_none in the source).
DachauMedVaccinationCenter(vaccine_type, round_num, name, salon_id, url, ajax_url, ajax_none) ==
  [vaccine_type |-> vaccine_type, round_num |-> round_num, name |-> name,
   salon_id |-> salon_id, url |-> url, ajax_url |-> ajax_url, ajax_none |-> ajax_none]

\* A plausible slip: the nonce takes part in the identifier.
UidWithNonce(c) == ModuleName \o ":" \o c.vaccine_type \o ":" \o c.salon_id \o ":" \o c.ajax_none

\* The property uid: f'{__name__}:{self.vaccine_type.name}:{self.salon_id}'
Uid(c) == ModuleName \o ":" \o c.vaccine_type \o ":" \o c.salon_id

Location(c) == "Germany, Bavaria, Landkreis Dachau"

-----------------------------------------------------------------------------
(* Results of a call: a returned value, or a raised exception. *)

Returns(v) == [raised |-> "none", value |-> Some(v)]
Raises(e) == [raised |-> e, value |-> None]

-----------------------------------------------------------------------------
(* The booking pages the site may serve *)

ShopIds == {"1", "2"}
Whitespace == {" ", "\n"}

\* The text of the option of shop s as the site usually prints it.
ShopText(s) == << "\n", " ", "Impfzentrum", " ", s, "\n" >>

Option(s, text) == [value |-> s, text |-> text]

\* str.strip(): leading and trailing whitespace removed.
RECURSIVE LStrip(_)
LStrip(s) == IF s # << >> /\ Head(s) \in Whitespace THEN LStrip(Tail(s)) ELSE s

RECURSIVE RStrip(_, _)
RStrip(s, chars) ==
  IF s # << >> /\ s[Len(s)] \in chars THEN RStrip(SubSeq(s, 1, Len(s) - 1), chars) ELSE s

Strip(s) == RStrip(LStrip(s), Whitespace)

\* str.partition(sep)[2]: what follows the first sep, empty without one.
RECURSIVE AfterFirst(_, _)
AfterFirst(s, sep) ==
  IF s = << >> THEN << >>
  ELSE IF Head(s) = sep THEN Tail(s)
  ELSE AfterFirst(Tail(s), sep)

\* A text that some code hands to a JSON parser: Json(v) is a text the parser
\* accepts, with value v; Text(s) is any other text.
Json(v) == [valid |-> TRUE, value |-> v]
Text(s) == [valid |-> FALSE, value |-> [raw |-> s]]

\* json.loads / response.json()
JsonLoads(text) == IF text.valid THEN Returns(text.value) ELSE Raises("JSONDecodeError")

HasKey(obj, key) == key \in DOMAIN obj

\* The inline script: its text is `before`, then one payload, then `after`.
Script(before, payload, after) == [before |-> before, payload |-> payload, after |-> after]

\* salon_extra.string.partition('=')[2].strip().rstrip(';'), then json.loads:
\* the payload is parsed when an '=' precedes it, only whitespace separates the
\* two, and what follows is whitespace once the trailing whitespace and then
\* the trailing semicolons are taken off.
ScriptJson(script) ==
  LET hasEq == \E i \in DOMAIN script.before : script.before[i] = "="
      lead == LStrip(AfterFirst(script.before, "="))
      trail == RStrip(RStrip(script.after, Whitespace), {";"})
  IN  IF hasEq /\ lead = << >> /\ RStrip(trail, Whitespace) = << >>
      THEN JsonLoads(script.payload)
      ELSE Raises("JSONDecodeError")

Page(form, shop_list, script) == [form |-> form, shop_list |-> shop_list, script |-> script]

\* What the HTTP client gets back: a response, or a network failure.
Response(status_code, body) == [net |-> "ok", status_code |-> status_code, body |-> body]
NetworkFailure == [net |-> "ConnectionError", status_code |-> 0, body |-> Text("")]

\* Response.raise_for_status(): HTTPError for a 4xx or 5xx status.
RaiseForStatus(resp) == resp.status_code >= 400 /\ resp.status_code < 600

Extra1 == [ajax_url |-> "https://termin.dachau-med.de/impfungen02/wp-admin/admin-ajax.php",
           ajax_nonce |-> "0a1b2c"]
Extra2 == [ajax_url |-> "https://termin.dachau-med.de/impfung/wp-admin/admin-ajax.php",
           ajax_nonce |-> "9f8e7d"]

GoodScript(extra) == Script(<< "var salon", " ", "=", " " >>, Json(extra), << ";" >>)

StdOptions == { Option(s, ShopText(s)) : s \in ShopIds }
ShopLists == UNION { [1..n -> StdOptions] : n \in 0..MaxShops }

GoodPages == { Response(200, Page(TRUE, Some(l), Some(GoodScript(Extra1)))) : l \in ShopLists }

\* The page of shop 1 after the site renamed the shop and issued a new nonce.
RefreshedPage ==
  Response(200, Page(TRUE, Some(<< Option("1", << "Dachau", " ", "Mitte" >>) >>),
                     Some(Script(<< "/* <![CDATA[ */", "\n", "var salon", "=" >>,
                                 Json(Extra2), << " ", ";", "\n" >>))))

OneShop == << Option("1", ShopText("1")) >>

BrokenPages ==
  { NetworkFailure,
    Response(503, Page(TRUE, Some(OneShop), Some(GoodScript(Extra1)))),
    Response(200, Page(FALSE, Some(OneShop), Some(GoodScript(Extra1)))),
    Response(200, Page(TRUE, None, Some(GoodScript(Extra1)))),
    Response(200, Page(TRUE, Some(OneShop), None)),
    Response(200, Page(TRUE, Some(OneShop),
                       Some(Script(<< "var salon", " " >>, Json(Extra1), << ";" >>)))),
    Response(200, Page(TRUE, Some(OneShop),
                       Some(Script(<< "var salon", "=" >>, Text("{\"ajax_url\":"), << ";" >>)))),
    Response(200, Page(TRUE, Some(OneShop),
                       Some(Script(<< "var salon", "=" >>,
                                   Json([ajax_url |-> Extra1.ajax_url]), << ";" >>)))) }

Pages == GoodPages \cup {RefreshedPage} \cup BrokenPages

-----------------------------------------------------------------------------
(* Center discovery *)

\* shops = [{'id': opt.attrs['value'], 'name': opt.text.strip()} for opt in ...]
Shops(options) == [i \in DOMAIN options |-> [id |-> options[i].value, name |-> Strip(options[i].text)]]

\* _get_vaccination_centers_for(url, vaccine_type, round_num), given the
\* answer resp to its GET of url.
GetVaccinationCentersFor(url, vaccine_type, round_num, resp) ==
  IF resp.net # "ok" THEN Raises(resp.net)
  ELSE IF RaiseForStatus(resp) THEN Raises("HTTPError")
  ELSE LET soup == resp.body IN
    IF ~soup.form THEN Raises("ValueError")
    ELSE IF soup.shop_list = None THEN Raises("ValueError")
    ELSE IF soup.script = None THEN Raises("ValueError")
    ELSE LET shops == Shops(soup.shop_list[1])
             extra_data == ScriptJson(soup.script[1])
         IN  IF extra_data.raised # "none" THEN Raises(extra_data.raised)
             ELSE IF shops # << >> /\ ~(HasKey(extra_data.value[1], "ajax_url")
                                        /\ HasKey(extra_data.value[1], "ajax_nonce"))
                  THEN Raises("KeyError")
             ELSE Returns([i \in DOMAIN shops |->
                    DachauMedVaccinationCenter(vaccine_type, round_num, shops[i].name,
                      shops[i].id, url, extra_data.value[1].ajax_url,
                      extra_data.value[1].ajax_nonce)])

\* The four fixed discovery calls of get_vaccination_centers, in its order.
Targets ==
  << [url |-> JNJ_URL, vaccine_type |-> "JohnsonAndJohnson", round_num |-> None],
     [url |-> ASTRA_2_URL, vaccine_type |-> "AstraZeneca", round_num |-> Some(2)],
     [url |-> BIONTECH_1_URL, vaccine_type |-> "Biontech", round_num |-> Some(1)],
     [url |-> BIONTECH_2_URL, vaccine_type |-> "Biontech", round_num |-> Some(2)] >>

\* The k-th discovery call; site[k] is the answer to the GET of Targets[k].url.
\* site holds the answers to the GETs that are sent, so it ends with the
\* answer that makes a call raise, or has all four.
Discover(site, k) ==
  GetVaccinationCentersFor(Targets[k].url, Targets[k].vaccine_type, Targets[k].round_num, site[k])

\* The results of the calls that are made, in order.
Results(site) == [k \in DOMAIN site |-> Discover(site, k)]

Failing(results) == { k \in DOMAIN results : results[k].raised # "none" }
FirstOf(S) == CHOOSE k \in S : \A j \in S : k <= j

\* A plausible slip: the calls listed in the order of the URL constants.
SumUrlOrder(results) ==
  IF Failing(results) = {}
  THEN [raised |-> "none",
        value |-> Some(results[2].value[1] \o results[1].value[1]
                       \o results[3].value[1] \o results[4].value[1]),
        requests |-> 4]
  ELSE [raised |-> results[FirstOf(Failing(results))].raised, value |-> None,
        requests |-> FirstOf(Failing(results))]

\* A plausible slip: an exception ends the discovery and what was gathered
\* before it is returned.
SumPartial(results) ==
  LET RECURSIVE gathered(_)
      gathered(k) == IF k > Len(results) \/ results[k].raised # "none" THEN << >>
                     ELSE results[k].value[1] \o gathered(k + 1)
  IN  [raised |-> "none", value |-> Some(gathered(1)), requests |-> Len(results)]

\* The sum of the four calls: they run left to right and their lists are
\* added; the first exception ends the evaluation.  requests is the number of
\* GETs sent.
Sum(results) ==
  IF Failing(results) = {}
  THEN [raised |-> "none",
        value |-> Some(results[1].value[1] \o results[2].value[1]
                       \o results[3].value[1] \o results[4].value[1]),
        requests |-> 4]
  ELSE [raised |-> results[FirstOf(Failing(results))].raised, value |-> None,
        requests |-> FirstOf(Failing(results))]

\* DachauMedPlugin.get_vaccination_centers
GetVaccinationCenters(site) == Sum(Results(site))

\* What the site may serve to one call: every answer but the last lets the
\* discovery go on, and the last is the fourth or one that ends the call.
Succeeds(resp) == GetVaccinationCentersFor(JNJ_URL, "JohnsonAndJohnson", None, resp).raised = "none"
Extend(S) == { Append(s, p) : s \in { t \in S : Succeeds(t[Len(t)]) }, p \in Pages }
Sites ==
  LET S1 == { << p >> : p \in Pages }
      S2 == Extend(S1)
      S3 == Extend(S2)
  IN  { s \in S1 \cup S2 \cup S3 : ~Succeeds(s[Len(s)]) } \cup Extend(S3)

-----------------------------------------------------------------------------
(* Calendar dates and datetime.strptime(d, '%Y-%m-%d').date() *)

Digits == << "0", "1", "2", "3", "4", "5", "6", "7", "8", "9" >>
IsDigit(c) == \E n \in DOMAIN Digits : Digits[n] = c
DigitVal(c) == (CHOOSE n \in DOMAIN Digits : Digits[n] = c) - 1

\* The value of a run of digits; a leading space counts as nothing.
RECURSIVE Num(_)
Num(s) ==
  IF s = << >> THEN 0
  ELSE IF s[Len(s)] = " " THEN 0
  ELSE Num(SubSeq(s, 1, Len(s) - 1)) * 10 + DigitVal(s[Len(s)])

Date(year, month, day) == [year |-> year, month |-> month, day |-> day]

IsLeap(y) == y % 4 = 0 /\ (y % 100 # 0 \/ y % 400 = 0)
DaysInMonth(y, m) ==
  IF m = 2 THEN (IF IsLeap(y) THEN 29 ELSE 28)
  ELSE IF m \in {4, 6, 9, 11} THEN 30 ELSE 31

\* The directive %m: 1[0-2]|0[1-9]|[1-9]
MonthForm(m) ==
  \/ Len(m) = 2 /\ m[1] = "1" /\ m[2] \in {"0", "1", "2"}
  \/ Len(m) = 2 /\ m[1] = "0" /\ IsDigit(m[2]) /\ m[2] # "0"
  \/ Len(m) = 1 /\ IsDigit(m[1]) /\ m[1] # "0"

\* The directive %d: 3[0-1]|[1-2]\d|0[1-9]|[1-9]| [1-9]
DayForm(d) ==
  \/ Len(d) = 2 /\ d[1] = "3" /\ d[2] \in {"0", "1"}
  \/ Len(d) = 2 /\ d[1] \in {"1", "2"} /\ IsDigit(d[2])
  \/ Len(d) = 2 /\ d[1] \in {"0", " "} /\ IsDigit(d[2]) /\ d[2] # "0"
  \/ Len(d) = 1 /\ IsDigit(d[1]) /\ d[1] # "0"

\* A plausible slip: the format '%Y-%d-%m', day before month.
StrptimeDayFirst(s) ==
  LET dash == IF Len(s) >= 7 /\ s[7] = "-" THEN 7 ELSE 8
      matches == /\ Len(s) >= 8
                 /\ \A i \in 1..4 : IsDigit(s[i])
                 /\ s[5] = "-"
                 /\ s[dash] = "-"
                 /\ DayForm(SubSeq(s, 6, dash - 1))
                 /\ MonthForm(SubSeq(s, dash + 1, Len(s)))
      year == Num(SubSeq(s, 1, 4))
      day == Num(SubSeq(s, 6, dash - 1))
      month == Num(SubSeq(s, dash + 1, Len(s)))
  IN  IF matches /\ year >= 1 /\ day <= DaysInMonth(year, month)
      THEN Returns(Date(year, month, day))
      ELSE Raises("ValueError")

\* datetime.datetime.strptime(s, '%Y-%m-%d').date(): four digits, '-', a month,
\* '-', a day and nothing more; then the date must exist (year 1 or later, the
\* day within the month).  Anything else is a ValueError.
Strptime(s) ==
  LET dash == IF Len(s) >= 7 /\ s[7] = "-" THEN 7 ELSE 8
      matches == /\ Len(s) >= 8
                 /\ \A i \in 1..4 : IsDigit(s[i])
                 /\ s[5] = "-"
                 /\ s[dash] = "-"
                 /\ MonthForm(SubSeq(s, 6, dash - 1))
                 /\ DayForm(SubSeq(s, dash + 1, Len(s)))
      year == Num(SubSeq(s, 1, 4))
      month == Num(SubSeq(s, 6, dash - 1))
      day == Num(SubSeq(s, dash + 1, Len(s)))
  IN  IF matches /\ year >= 1 /\ day <= DaysInMonth(year, month)
      THEN Returns(Date(year, month, day))
      ELSE Raises("ValueError")

-----------------------------------------------------------------------------
(* Availability check *)

NoAppointmentsMarker == "Keine freien Termine"

\* A plausible slip: == where the code has `in`.
IsMarker(text) == text = << NoAppointmentsMarker >>

\* 'Keine freien Termine' in response.text, the text given as its phrases.
ContainsMarker(text) == \E i \in DOMAIN text : text[i] = NoAppointmentsMarker

\* An element of the HTML fragment; attrs maps attribute names to values.
Element(name, attrs) == [name |-> name, attrs |-> attrs]

\* soup.find(lambda t: 'data-intervals' in t.attrs): the first such element
\* in document order, None without one.
Find(content) ==
  LET hits == { i \in DOMAIN content : "data-intervals" \in DOMAIN content[i].attrs }
  IN  IF hits = {} THEN None ELSE Some(content[FirstOf(hits)])

AvailabilityInfo(dates, not_available_until) ==
  [dates |-> dates, not_available_until |-> not_available_until]

EmptyMapping == [k \in {} |-> k]

Outcome(result, errors) == [raised |-> result.raised, value |-> result.value, errors |-> errors]

\* A plausible slip: the missing node raises like every other parse failure.
NodeNotFoundRaises == Outcome(Raises("ValueError"), 0)

\* if not data_node: logger.error(...); return {}
NodeNotFound == Outcome(Returns(EmptyMapping), 1)

\* A plausible slip: a date that does not parse is left out.
ParseDatesLenient(strings) ==
  LET RECURSIVE keep(_)
      keep(l) == IF l = << >> THEN << >>
                 ELSE IF Strptime(Head(l)).raised # "none" THEN keep(Tail(l))
                 ELSE << Strptime(Head(l)).value[1] >> \o keep(Tail(l))
  IN  Returns(keep(strings))

\* dates = [datetime.datetime.strptime(d, '%Y-%m-%d').date() for d in intervals['dates']]
ParseDates(strings) ==
  IF \E i \in DOMAIN strings : Strptime(strings[i]).raised # "none"
  THEN Raises("ValueError")
  ELSE Returns([i \in DOMAIN strings |-> Strptime(strings[i]).value[1]])

\* The key (self.vaccine_type, self.round_num)
VaccineRound(self) == << self.vaccine_type, self.round_num >>

\* DachauMedVaccinationCenter.check_availability, given the answer resp to its
\* POST to self.ajax_url.  errors counts the logger.error records.
CheckAvailability(self, resp) ==
  IF resp.net # "ok" THEN Outcome(Raises(resp.net), 0)
  ELSE IF ContainsMarker(resp.body.text) THEN Outcome(Returns(EmptyMapping), 0)
  ELSE LET json == JsonLoads(resp.body.json) IN
    IF json.raised # "none" THEN Outcome(Raises(json.raised), 0)
    ELSE IF ~HasKey(json.value[1], "content") THEN Outcome(Raises("KeyError"), 0)
    ELSE LET data_node == Find(json.value[1].content) IN
      IF data_node = None THEN NodeNotFound
      ELSE LET intervals == JsonLoads(data_node[1].attrs["data-intervals"]) IN
        IF intervals.raised # "none" THEN Outcome(Raises(intervals.raised), 0)
        ELSE IF ~HasKey(intervals.value[1], "dates") THEN Outcome(Raises("KeyError"), 0)
        ELSE LET dates == ParseDates(intervals.value[1].dates) IN
          IF dates.raised # "none" THEN Outcome(Raises(dates.raised), 0)
          ELSE Outcome(Returns(VaccineRound(self) :> AvailabilityInfo(dates.value[1], None)), 0)

-----------------------------------------------------------------------------
(* The answers the AJAX endpoint may give *)

\* date.isoformat(): YYYY-MM-DD, zero padded.
RECURSIVE Pad(_, _)
Pad(n, width) == IF width = 0 THEN << >> ELSE Pad(n \div 10, width - 1) \o << Digits[(n % 10) + 1] >>
IsoFormat(d) == Pad(d.year, 4) \o << "-" >> \o Pad(d.month, 2) \o << "-" >> \o Pad(d.day, 2)

SampleDates == { Date(2021, 6, 1), Date(2021, 6, 3), Date(2021, 12, 31), Date(2020, 2, 29) }
IsoStrings == { IsoFormat(d) : d \in SampleDates }

OtherStrings ==
  { << "2", "0", "2", "1", "-", "6", "-", "1" >>,
    << "2", "0", "2", "1", "-", "0", "2", "-", "2", "9" >>,
    << "2", "0", "2", "1", "-", "1", "3", "-", "0", "1" >>,
    << "2", "0", "2", "1", "-", "0", "6", "-", "0", "1", "1" >>,
    << "0", "1", ".", "0", "6", ".", "2", "0", "2", "1" >> }

DateStrings == IsoStrings \cup OtherStrings
DateLists == UNION { [1..n -> DateStrings] : n \in 0..MaxDates }

IntervalTexts ==
  { Text("{\"dates\":[") } \cup { Json([days |-> << >>]) } \cup { Json([dates |-> l]) : l \in DateLists }

PlainDiv == Element("div", "class" :> Text("sln-box"))
DataNode(v) == Element("div", "data-intervals" :> v)

HtmlContents ==
  { << >>, << PlainDiv >> }
    \cup UNION { { << PlainDiv, DataNode(v) >>, << DataNode(v), PlainDiv >> } : v \in IntervalTexts }

Body(text, json) == [text |-> text, json |-> json]

BodyTexts ==
  { << "Bitte", "Termin", "waehlen" >>, << "Leider", NoAppointmentsMarker, "vorhanden" >> }

BodyJsons ==
  { Text("<html>Service Unavailable</html>"), Json([error |-> "bad nonce"]) }
    \cup { Json([content |-> h]) : h \in HtmlContents }

Answers ==
  { NetworkFailure }
    \cup { Response(st, Body(t, j)) : st \in {200, 503}, t \in BodyTexts, j \in BodyJsons }

\* The centers of shop 1 that a discovery pass hands to the scheduler.
SelfCenters ==
  { DachauMedVaccinationCenter(Targets[k].vaccine_type, Targets[k].round_num,
      Strip(ShopText("1")), "1", Targets[k].url, Extra1.ajax_url, Extra1.ajax_nonce) :
    k \in DOMAIN Targets }

-----------------------------------------------------------------------------
(* config.py *)

DefaultAdminChatId == 56970700
DefaultDatabaseSpec == "sqlite+pysqlite:///data/impfbot.db"
DefaultCheckPeriod == 20 * 60
DefaultLogFormat == "[%(asctime)s - %(levelname)s - %(name)s]: %(message)s"

\* The dataclass Config
Config(token, admin_chat_id, database_spec, check_period, log_format) ==
  [token |-> token, admin_chat_id |-> admin_chat_id, database_spec |-> database_spec,
   check_period |-> check_period, log_format |-> log_format]

OrElse(opt, default) == IF opt = None THEN default ELSE opt[1]

\* A plausible slip: a missing token becomes the empty string.
LoadTokenOptional(file) ==
  Returns(Config(OrElse(file.token, ""), OrElse(file.admin_chat_id, DefaultAdminChatId),
                 OrElse(file.database_spec, DefaultDatabaseSpec),
                 OrElse(file.check_period, DefaultCheckPeriod),
                 OrElse(file.log_format, DefaultLogFormat)))

\* Config.load: yaml.from_stream(cls, fp) on the mapping file, whose keys are
\* each absent (None) or present.  A field without a default must be present;
\* the error is the deserializer's.
Load(file) ==
  IF file.token = None THEN Raises("ConversionError")
  ELSE Returns(Config(file.token[1], OrElse(file.admin_chat_id, DefaultAdminChatId),
                      OrElse(file.database_spec, DefaultDatabaseSpec),
                      OrElse(file.check_period, DefaultCheckPeriod),
                      OrElse(file.log_format, DefaultLogFormat)))

Files ==
  [ token : {None, Some("123456:ABC"), Some("")},
    admin_chat_id : {None, Some(42)},
    database_spec : {None, Some("sqlite+pysqlite:///:memory:")},
    check_period : {None, Some(60)},
    log_format : {None, Some("%(message)s")} ]

-----------------------------------------------------------------------------
(* The calls *)

VARIABLES
  pc,         \* the call that has just ended, "idle" between calls
  served,     \* the HTTP answers the call received, in order
  requests,   \* the HTTP requests the call sent, in order
  raised,     \* the exception the call ended with, "none" when it returned
  returned,   \* Some(value returned), None when the call raised
  self,       \* Some(center) for check_availability, else None
  errors,     \* number of logger.error records the call emitted
  file        \* Some(settings file) for Config.load, else None

vars == << pc, served, requests, raised, returned, self, errors, file >>

Request(method, url) == [method |-> method, url |-> url]

Init ==
  /\ pc = "idle"
  /\ served = << >>
  /\ requests = << >>
  /\ raised = "none"
  /\ returned = None
  /\ self = None
  /\ errors = 0
  /\ file = None

\* plugin.get_vaccination_centers() against a site answering its GETs with site.
CallGetVaccinationCenters ==
  /\ pc = "idle"
  /\ \E site \in Sites : \E r \in { GetVaccinationCenters(site) } :
         /\ served' = site
         /\ requests' = [k \in 1..r.requests |-> Request("GET", Targets[k].url)]
         /\ raised' = r.raised
         /\ returned' = r.value
  /\ pc' = "get_vaccination_centers"
  /\ UNCHANGED << self, errors, file >>

\* center.check_availability() with the endpoint answering resp.
CallCheckAvailability ==
  /\ pc = "idle"
  /\ \E c \in SelfCenters, resp \in Answers : \E r \in { CheckAvailability(c, resp) } :
         /\ self' = Some(c)
         /\ served' = << resp >>
         /\ requests' = << Request("POST", c.ajax_url) >>
         /\ raised' = r.raised
         /\ returned' = r.value
         /\ errors' = r.errors
  /\ pc' = "check_availability"
  /\ UNCHANGED file

\* Config.load(filename)
CallLoad ==
  /\ pc = "idle"
  /\ \E f \in Files : \E r \in { Load(f) } :
       /\ file' = Some(f)
       /\ raised' = r.raised
       /\ returned' = r.value
  /\ pc' = "Config.load"
  /\ UNCHANGED << served, requests, self, errors >>

\* The caller takes the result and goes back to its loop.
Return ==
  /\ pc # "idle"
  /\ pc' = "idle"
  /\ served' = << >>
  /\ requests' = << >>
  /\ raised' = "none"
  /\ returned' = None
  /\ self' = None
  /\ errors' = 0
  /\ file' = None

Next == CallGetVaccinationCenters \/ CallCheckAvailability \/ CallLoad \/ Return

Spec == Init /\ [][Next]_vars

-----------------------------------------------------------------------------
(* Properties *)

Discovered == pc = "get_vaccination_centers"
Checked == pc = "check_availability"
Loaded == pc = "Config.load"

\* Read off a served page, not through the discovery code.
OptionsOf(resp) == resp.body.shop_list[1]
PayloadOf(resp) == resp.body.script[1].payload.value
WellFormedPage(resp) ==
  /\ resp.net = "ok" /\ resp.status_code = 200
  /\ resp.body.form /\ resp.body.shop_list # None /\ resp.body.script # None
  /\ resp.body.script[1].payload.valid
  /\ "ajax_url" \in DOMAIN PayloadOf(resp) /\ "ajax_nonce" \in DOMAIN PayloadOf(resp)
  /\ \E i \in DOMAIN resp.body.script[1].before : resp.body.script[1].before[i] = "="

NoLeadingOrTrailingSpace(name) ==
  name = << >> \/ (name[1] \notin Whitespace /\ name[Len(name)] \notin Whitespace)

RECURSIVE Count(_, _)
Count(pages, k) == IF k = 0 THEN 0 ELSE Count(pages, k - 1) + Len(OptionsOf(pages[k]))

\* C1: when all four discovery calls succeed, get_vaccination_centers returns
\* the four pages' centers one page after the other, in the order
\* JohnsonAndJohnson/no round, AstraZeneca/2, Biontech/1, Biontech/2, each
\* page's centers in the order of its options, one center per option: nothing
\* is dropped, merged or deduplicated.
C1_ConcatenationInFixedOrder ==
  (Discovered /\ Len(served) = 4 /\ \A k \in 1..4 : WellFormedPage(served[k])) =>
    /\ raised = "none"
    /\ returned # None
    /\ Len(returned[1]) = Count(served, 4)
    /\ \A k \in 1..4 : \A i \in DOMAIN OptionsOf(served[k]) :
         LET c == returned[1][Count(served, k - 1) + i]
             opt == OptionsOf(served[k])[i]
         IN  /\ c.vaccine_type = << "JohnsonAndJohnson", "AstraZeneca", "Biontech", "Biontech" >>[k]
             /\ c.round_num = << None, Some(2), Some(1), Some(2) >>[k]
             /\ c.url = << JNJ_URL, ASTRA_2_URL, BIONTECH_1_URL, BIONTECH_2_URL >>[k]
             /\ c.salon_id = opt.value
             /\ NoLeadingOrTrailingSpace(c.name)
             /\ c.ajax_url = PayloadOf(served[k]).ajax_url
             /\ c.ajax_none = PayloadOf(served[k]).ajax_nonce

\* A run where shop 1 is on three pages, and one page lists shop 2 before shop 1.
C1_Witness ==
  /\ Discovered /\ raised = "none" /\ Len(served) = 4
  /\ Len(returned[1]) = 5
  /\ << returned[1][1].salon_id, returned[1][2].salon_id >> = << "2", "1" >>
  /\ returned[1][3].salon_id = "1" /\ returned[1][3].vaccine_type = "AstraZeneca"
  /\ returned[1][4].salon_id = "1" /\ returned[1][4].round_num = Some(1)
  /\ returned[1][5].salon_id = "1" /\ returned[1][5].round_num = Some(2)

\* C2: in every list get_vaccination_centers returns, two centers that differ
\* in (vaccine type, round number, shop id) have different uids.
C2_UidUnique ==
  (Discovered /\ returned # None) =>
    \A i, j \in DOMAIN returned[1] :
      LET c == returned[1][i]
          d == returned[1][j]
      IN  << c.vaccine_type, c.round_num, c.salon_id >> # << d.vaccine_type, d.round_num, d.salon_id >>
            => Uid(c) # Uid(d)

\* C3: the uid depends on the vaccine type and the shop id only: a center just
\* discovered has the uid of every center with its vaccine type and shop id,
\* in the same list or handed out by an earlier discovery, whatever the shop
\* name, URL, AJAX endpoint, nonce and round of the two.
C3_UidFunctionOfTypeAndShop ==
  (Discovered /\ returned # None) =>
    \A i \in DOMAIN returned[1] :
      \A d \in SelfCenters \cup { returned[1][j] : j \in DOMAIN returned[1] } :
        (returned[1][i].vaccine_type = d.vaccine_type /\ returned[1][i].salon_id = d.salon_id)
          => Uid(returned[1][i]) = Uid(d)

\* The renamed shop with its new nonce has the uid it had in an earlier discovery.
C3_Witness ==
  /\ Discovered /\ returned # None
  /\ \E i \in DOMAIN returned[1] : \E d \in SelfCenters :
       /\ returned[1][i].vaccine_type = d.vaccine_type
       /\ returned[1][i].salon_id = d.salon_id
       /\ returned[1][i].name # d.name
       /\ returned[1][i].ajax_none # d.ajax_none
       /\ returned[1][i].ajax_url # d.ajax_url
       /\ Uid(returned[1][i]) = Uid(d)

Answered == Checked /\ served[1].net = "ok"
MarkerIn(resp) == \E i \in DOMAIN resp.body.text : resp.body.text[i] = "Keine freien Termine"

\* C4: an answer whose body contains "Keine freien Termine" makes
\* check_availability return the empty mapping, without an exception and
\* without an error record, whatever else the body holds.
C4_MarkerMeansEmpty ==
  (Answered /\ MarkerIn(served[1])) =>
    /\ raised = "none"
    /\ returned = Some(EmptyMapping)
    /\ errors = 0

\* The marker in a body that is not JSON.
C4_Witness ==
  /\ Answered /\ MarkerIn(served[1])
  /\ ~served[1].body.json.valid
  /\ returned = Some(EmptyMapping)

\* The content of a JSON body, and the value of its first data-intervals attribute.
HasContent(resp) == resp.body.json.valid /\ "content" \in DOMAIN resp.body.json.value
ContentOf(resp) == resp.body.json.value.content
NodesOf(resp) == { i \in DOMAIN ContentOf(resp) : "data-intervals" \in DOMAIN ContentOf(resp)[i].attrs }
IntervalsOf(resp) ==
  ContentOf(resp)[CHOOSE i \in NodesOf(resp) : \A j \in NodesOf(resp) : i <= j].attrs["data-intervals"]
ListsDates(resp) ==
  /\ HasContent(resp) /\ NodesOf(resp) # {}
  /\ IntervalsOf(resp).valid /\ "dates" \in DOMAIN IntervalsOf(resp).value
DatesOf(resp) == IntervalsOf(resp).value.dates

\* A string that is a date written YYYY-MM-DD.
WellFormedDate(s) ==
  /\ Len(s) = 10
  /\ \A i \in {1, 2, 3, 4, 6, 7, 9, 10} : IsDigit(s[i])
  /\ s[5] = "-" /\ s[8] = "-"
  /\ Num(SubSeq(s, 1, 4)) >= 1
  /\ Num(SubSeq(s, 6, 7)) \in 1..12
  /\ Num(SubSeq(s, 9, 10)) \in 1..DaysInMonth(Num(SubSeq(s, 1, 4)), Num(SubSeq(s, 6, 7)))

\* C5: an answer without the marker whose content has a data-intervals
\* element listing well-formed dates makes check_availability return a
\* mapping with one entry, under the center's (vaccine type, round), holding
\* the listed dates, each as the calendar date it writes, and no
\* not_available_until.
C5_ListedDatesReturned ==
  (Answered /\ ~MarkerIn(served[1]) /\ ListsDates(served[1])
     /\ \A i \in DOMAIN DatesOf(served[1]) : WellFormedDate(DatesOf(served[1])[i])) =>
    /\ raised = "none"
    /\ returned # None
    /\ DOMAIN returned[1] = { << self[1].vaccine_type, self[1].round_num >> }
    /\ LET info == returned[1][<< self[1].vaccine_type, self[1].round_num >>] IN
         /\ info.not_available_until = None
         /\ Len(info.dates) = Len(DatesOf(served[1]))
         /\ \A i \in DOMAIN info.dates : IsoFormat(info.dates[i]) = DatesOf(served[1])[i]

\* June 1 and June 3, 2021 for a Biontech first dose.
C5_Witness ==
  /\ Answered /\ ~MarkerIn(served[1]) /\ ListsDates(served[1])
  /\ self[1].vaccine_type = "Biontech" /\ self[1].round_num = Some(1)
  /\ returned # None
  /\ DOMAIN returned[1] = { << "Biontech", Some(1) >> }
  /\ returned[1][<< "Biontech", Some(1) >>].dates = << Date(2021, 6, 1), Date(2021, 6, 3) >>

\* C6: an answer without the marker whose content has no data-intervals
\* element makes check_availability return the empty mapping and emit one
\* error record, without an exception.
C6_MissingNodeLogged ==
  (Answered /\ ~MarkerIn(served[1]) /\ HasContent(served[1]) /\ NodesOf(served[1]) = {}) =>
    /\ raised = "none"
    /\ returned = Some(EmptyMapping)
    /\ errors = 1

C6_Witness ==
  /\ Answered /\ ~MarkerIn(served[1]) /\ HasContent(served[1])
  /\ ContentOf(served[1]) # << >> /\ NodesOf(served[1]) = {}
  /\ returned = Some(EmptyMapping) /\ errors = 1

\* The one case in which check_availability may return after a parse failure.
OnlyMissingNodeSwallowed ==
  (Answered /\ raised = "none" /\ ~MarkerIn(served[1])) =>
    /\ HasContent(served[1])
    /\ \/ NodesOf(served[1]) = {} /\ errors = 1 /\ returned = Some(EmptyMapping)
       \/ ListsDates(served[1]) /\ errors = 0 /\ returned # Some(EmptyMapping)
            /\ \A k \in DOMAIN returned[1] : Len(returned[1][k].dates) = Len(DatesOf(served[1]))

\* C7 as stated: a listed date that is not a well-formed YYYY-MM-DD date makes
\* check_availability raise and return nothing; the missing data-intervals
\* element is the only parse failure that is swallowed.
C7_MalformedDateRaises ==
  /\ (Answered /\ ~MarkerIn(served[1]) /\ ListsDates(served[1])
        /\ \E i \in DOMAIN DatesOf(served[1]) : ~WellFormedDate(DatesOf(served[1])[i]))
       => (raised # "none" /\ returned = None)
  /\ OnlyMissingNodeSwallowed

\* The ways to write a date that the format '%Y-%m-%d' reads: month and day
\* with or without the leading zero, the day also with a leading space.
Unpadded(n) == << Digits[n + 1] >>
MonthSpellings(m) == IF m < 10 THEN { Pad(m, 2), Unpadded(m) } ELSE { Pad(m, 2) }
DaySpellings(d) == IF d < 10 THEN { Pad(d, 2), Unpadded(d), << " " >> \o Unpadded(d) } ELSE { Pad(d, 2) }
Spellings(d) ==
  { Pad(d.year, 4) \o << "-" >> \o m \o << "-" >> \o dd :
      m \in MonthSpellings(d.month), dd \in DaySpellings(d.day) }
Years == { 2020, 2021 }
CalendarDates ==
  { Date(t[1], t[2], t[3]) :
      t \in { u \in Years \X (1..12) \X (1..31) : u[3] <= DaysInMonth(u[1], u[2]) } }
ReadableStrings == UNION { Spellings(d) : d \in CalendarDates }

\* C7 as amended: a listed date that '%Y-%m-%d' does not read makes
\* check_availability raise and return nothing, and only such a date does: a
\* date without its leading zeros, as 2021-6-1, is read as that date.  The
\* missing data-intervals element is the only parse failure that is swallowed.
C7_UnreadableDateRaises ==
  /\ (Answered /\ ~MarkerIn(served[1]) /\ ListsDates(served[1])) =>
       /\ (\E i \in DOMAIN DatesOf(served[1]) : DatesOf(served[1])[i] \notin ReadableStrings)
            <=> raised # "none"
       /\ raised # "none" => (raised = "ValueError" /\ returned = None)
  /\ OnlyMissingNodeSwallowed

\* A well-formed date followed by the 29th of February 2021.
C7_Witness ==
  /\ Answered /\ ~MarkerIn(served[1]) /\ ListsDates(served[1])
  /\ Len(DatesOf(served[1])) = 2
  /\ WellFormedDate(DatesOf(served[1])[1])
  /\ DatesOf(served[1])[2] = << "2", "0", "2", "1", "-", "0", "2", "-", "2", "9" >>
  /\ raised = "ValueError" /\ returned = None

\* A page that was served but lacks the form, the shop list or the script, or
\* whose script payload is not JSON.
LacksRequired(resp) ==
  /\ resp.net = "ok" /\ resp.status_code = 200
  /\ \/ ~resp.body.form
     \/ resp.body.shop_list = None
     \/ resp.body.script = None
     \/ (resp.body.script # None /\ ~resp.body.script[1].payload.valid)

\* C8: when a page lacks a required element or its embedded JSON is malformed
\* the discovery raises a parse error, and get_vaccination_centers returns
\* nothing, not even the centers of the pages before it.
C8_NoPartialDiscovery ==
  (Discovered /\ \E k \in DOMAIN served : LacksRequired(served[k])) =>
    /\ raised \in {"ValueError", "JSONDecodeError"}
    /\ returned = None

\* The third page has a shop option but no script, after two pages with shops.
C8_Witness ==
  /\ Discovered /\ Len(served) = 3
  /\ OptionsOf(served[1]) # << >> /\ OptionsOf(served[2]) # << >>
  /\ served[3].net = "ok" /\ served[3].body.shop_list # None
  /\ OptionsOf(served[3]) # << >> /\ served[3].body.script = None
  /\ raised = "ValueError" /\ returned = None

TransportFailure(resp) == resp.net # "ok" \/ resp.status_code \notin 200..299

\* C9: a network failure or a non-2xx answer always ends the call with an
\* exception and never with a result, in discovery and in check_availability
\* alike, and each URL is requested once.
C9_TransportFailurePropagated ==
  (Discovered \/ Checked) =>
    /\ Len(requests) = Len(served)
    /\ \A i, j \in DOMAIN requests : requests[i].url = requests[j].url => i = j
    /\ (\E k \in DOMAIN served : TransportFailure(served[k])) => (raised # "none" /\ returned = None)

\* C10: without the token key Config.load fails and returns nothing; with it,
\* the Config has the file's token, every other key of the file overrides its
\* default, and every absent key has its default: 56970700, the sqlite
\* database, 1200 seconds, the log format.
C10_ConfigDefaults ==
  Loaded =>
    /\ file[1].token = None => (raised # "none" /\ returned = None)
    /\ file[1].token # None =>
         /\ raised = "none" /\ returned # None
         /\ returned[1].token = file[1].token[1]
         /\ returned[1].admin_chat_id =
              (IF file[1].admin_chat_id = None THEN 56970700 ELSE file[1].admin_chat_id[1])
         /\ returned[1].database_spec =
              (IF file[1].database_spec = None THEN "sqlite+pysqlite:///data/impfbot.db"
               ELSE file[1].database_spec[1])
         /\ returned[1].check_period =
              (IF file[1].check_period = None THEN 1200 ELSE file[1].check_period[1])
         /\ returned[1].log_format =
              (IF file[1].log_format = None
               THEN "[%(asctime)s - %(levelname)s - %(name)s]: %(message)s"
               ELSE file[1].log_format[1])

\* A file with the token alone.
C10_Witness ==
  /\ Loaded /\ file[1].token # None
  /\ file[1].admin_chat_id = None /\ file[1].database_spec = None
  /\ file[1].check_period = None /\ file[1].log_format = None
  /\ returned # None /\ returned[1].check_period = 1200

=============================================================================
